---------------------------- MODULE Spec2Model ----------------------------
(***************************************************************************)
(* Model of src/src/main.js of web-search-navigator: the viewport scroller *)
(* (scrollToElement), the focus ledger (SearchResultsManager) and the      *)
(* result navigation orchestrator (WebSearchNavigator).                    *)
(*                                                                         *)
(* The page is a column: a header of HeaderHeight pixels followed by the   *)
(* result containers, ResultHeight pixels each, in list order.  A DOM      *)
(* element of a result is named by a number of Elems; a result list is a   *)
(* sequence of distinct elements.  JavaScript indices are 0-based, so      *)
(* searchResults[i] of the source is searchResults[i + 1] here.            *)
(***************************************************************************)
EXTENDS Integers, Sequences, FiniteSets, TLC

\* ------------------------------------------------------------- bounds
MaxResults == 3
HeaderHeight == 40
ResultHeight == 100
ViewportHeight == 150
\* getTopMargin(element) of the adapter: none, or a fixed header of the page.
TopMargins == {0, 60}
\* getBrowserBottomDelta(): the height of Firefox's tooltip.
FirefoxBottomDelta == 26

Elems == 1..MaxResults
\* Results whose anchor is not the element that carries the highlight.
SeparateAnchor == {e \in Elems : e % 2 = 0}
CurrentUrl == "https://x/search?q=a"
OtherUrl == "https://x/search?q=b"

VARIABLES
    pc,                 \* "loading" | "ready" | "inert" | "ledger"
    options,            \* options.sync: autoSelectFirst, wrapNavigation, hideOutline
    local,              \* options.local.values: lastQueryUrl, lastFocusedIndex
    topMargin,          \* what searchEngine.getTopMargin returns on this page
    bottomMargin,       \* what getBrowserBottomDelta returns in this browser
    searchResults,      \* resultsManager.searchResults
    focusedIndex,       \* resultsManager.focusedIndex
    isFirstNavigation,  \* WebSearchNavigator.isFirstNavigation (undefined is FALSE)
    highlight,          \* elements whose highlightedElement carries highlightClass
    noOutline,          \* elements whose anchor carries 'wsn-no-outline'
    activeElement,      \* document.activeElement
    scrollY,            \* window.scrollY
    lastOp,             \* the handler that ran last, with its arguments
    scrollLog,          \* the scrollToElement calls of the handler that ran last
    events,             \* its other effects, in order: save, click, tabsCreate, scrollTo
    threw               \* whether it ended in a TypeError

vars == <<pc, options, local, topMargin, bottomMargin, searchResults, focusedIndex,
          isFirstNavigation, highlight, noOutline, activeElement, scrollY,
          lastOp, scrollLog, events, threw>>

\* ------------------------------------------------------------ elements
NoElement == [kind |-> "null", elem |-> 0]
Undefined == [kind |-> "undefined", elem |-> 0]
Body == [kind |-> "body", elem |-> 0]
OtherLink == [kind |-> "link", elem |-> 0]
AnchorOf(e) == [kind |-> "anchor", elem |-> e]

Range(s) == {s[i] : i \in 1..Len(s)}
Max(a, b) == IF a >= b THEN a ELSE b

\* The state a handler works on, as one record.
Cur ==
    [searchResults |-> searchResults, focusedIndex |-> focusedIndex,
     isFirstNavigation |-> isFirstNavigation, local |-> local,
     highlight |-> highlight, noOutline |-> noOutline,
     activeElement |-> activeElement, scrollY |-> scrollY,
     scrollLog |-> <<>>, events |-> <<>>, threw |-> FALSE]

\* this.searchResults[i] is a record (not undefined).
Defined(L, i) == i >= 0 /\ i < Len(L.searchResults)

Throw(L) == [L EXCEPT !.threw = TRUE]

\* --------------------------------------------------- viewport scroller
getBrowserBottomDeltaFor(firefox) == IF firefox THEN FirefoxBottomDelta ELSE 0

\* The largest scroll position of the page.
MaxScrollYOf(results) ==
    Max(0, HeaderHeight + Len(results) * ResultHeight - ViewportHeight)

ClampScroll(L, y) ==
    IF y < 0 THEN 0
    ELSE IF y > MaxScrollYOf(L.searchResults) THEN MaxScrollYOf(L.searchResults)
    ELSE y

\* elementBounds.top and elementBounds.bottom of the container of result i.
BoundsTop(L, i) == HeaderHeight + i * ResultHeight - L.scrollY
BoundsBottom(L, i) == BoundsTop(L, i) + ResultHeight

\* element.scrollIntoView(alignToTop): the scroll position it leaves.
scrollIntoView(L, i, alignToTop) ==
    IF alignToTop
    THEN ClampScroll(L, HeaderHeight + i * ResultHeight)
    ELSE ClampScroll(L, HeaderHeight + (i + 1) * ResultHeight - ViewportHeight)

\* The two tests of lines 22 and 26 in the other order.
scrollBranchBottomFirst(L, i) ==
    IF BoundsBottom(L, i) + bottomMargin > ViewportHeight THEN "bottom"
    ELSE IF BoundsTop(L, i) < topMargin THEN "top"
    ELSE "none"

\* Which adjustment scrollToElement applies: "top", "bottom" or "none".
scrollBranch(L, i) ==
    IF BoundsTop(L, i) < topMargin THEN "top"
    ELSE IF BoundsBottom(L, i) + bottomMargin > ViewportHeight THEN "bottom"
    ELSE "none"

\* window.scrollY after scrollToElement on the container of result i.
scrollTarget(L, i) ==
    CASE scrollBranch(L, i) = "top" ->
           ClampScroll(L, scrollIntoView(L, i, TRUE) - topMargin)
      [] scrollBranch(L, i) = "bottom" ->
           ClampScroll(L, scrollIntoView(L, i, FALSE) + bottomMargin)
      [] OTHER -> L.scrollY

scrollToElement(L, i) ==
    [L EXCEPT !.scrollY = scrollTarget(L, i),
              !.scrollLog = Append(@, [index |-> i,
                                       elem |-> L.searchResults[i + 1],
                                       branch |-> scrollBranch(L, i),
                                       scrolled |-> scrollTarget(L, i) # L.scrollY])]

\* The value the last scrollToElement call returned.
Scrolled(L) == L.scrollLog[Len(L.scrollLog)].scrolled

\* -------------------------------------------------------- focus ledger
\* new SearchResultsManager(...) followed by reloadSearchResults().
\* Line 38: the index a new manager starts with.
ConstructorFocusedIndex == 0

NewManager(L, results) ==
    [L EXCEPT !.searchResults = results, !.focusedIndex = ConstructorFocusedIndex]

reloadSearchResults(L, results) == [L EXCEPT !.searchResults = results]

\* anchor === highlightedElement for the result of element e.
AnchorIsHighlighted(e) == e \notin SeparateAnchor

removeHighlightKeepsClass(L, i) == L

\* Lines 75-78: the highlight class and 'wsn-no-outline' leave the
\* highlightedElement of result i (the anchor keeps its class when it is
\* another element).
removeHighlight(L, i) ==
    LET e == L.searchResults[i + 1]
    IN  [L EXCEPT !.highlight = @ \ {e},
                  !.noOutline = IF AnchorIsHighlighted(e) THEN @ \ {e} ELSE @]

\* Lines 85-100 without line 94: the anchor is not given the native focus.
applyHighlightWithoutFocus(L, index, scrollToResult) ==
    LET e == L.searchResults[index + 1]
        s1 == [L EXCEPT !.highlight = @ \cup {e},
                        !.noOutline = IF options.hideOutline \/ ~AnchorIsHighlighted(e)
                                      THEN @ \cup {e} ELSE @]
        s2 == IF scrollToResult THEN scrollToElement(s1, index) ELSE s1
    IN  [s2 EXCEPT !.focusedIndex = index]

\* Lines 85-100: highlight result index, focus its anchor, scroll to it.
applyHighlight(L, index, scrollToResult) ==
    LET e == L.searchResults[index + 1]
        s1 == [L EXCEPT !.highlight = @ \cup {e},
                        !.noOutline = IF options.hideOutline \/ ~AnchorIsHighlighted(e)
                                      THEN @ \cup {e} ELSE @,
                        !.activeElement = AnchorOf(e)]
        s2 == IF scrollToResult THEN scrollToElement(s1, index) ELSE s1
    IN  [s2 EXCEPT !.focusedIndex = index]

focusTargetKeepsIndex(L, index, scrollToResult) ==
    IF ~Defined(L, index) THEN L ELSE applyHighlight(L, index, scrollToResult)

\* Lines 80-101: the part of focus after the previous highlight is gone.
focusTarget(L, index, scrollToResult) ==
    IF ~Defined(L, index)
    THEN [L EXCEPT !.focusedIndex = -1]
    ELSE applyHighlight(L, index, scrollToResult)

\* focus() without the return of line 73: it goes on after a scroll.
focusThroughScroll(L, index, scrollToResult) ==
    IF L.focusedIndex >= 0
    THEN IF ~Defined(L, L.focusedIndex)
         THEN Throw(L)
         ELSE LET s1 == IF scrollToResult
                        THEN scrollToElement(L, L.focusedIndex) ELSE L
              IN  focusTarget(removeHighlight(s1, L.focusedIndex),
                              index, scrollToResult)
    ELSE focusTarget(L, index, scrollToResult)

\* The condition of line 67.
hasFocusedResult(L) == L.focusedIndex >= 0

\* Lines 67-79: the current result is scrolled to first; a scroll ends the call.
focus(L, index, scrollToResult) ==
    IF hasFocusedResult(L)
    THEN IF ~Defined(L, L.focusedIndex)
         THEN Throw(L)      \* searchResult is undefined: searchResult.container
         ELSE LET s1 == IF scrollToResult
                        THEN scrollToElement(L, L.focusedIndex) ELSE L
              IN  IF scrollToResult /\ Scrolled(s1)
                  THEN s1
                  ELSE focusTarget(removeHighlight(s1, L.focusedIndex),
                                   index, scrollToResult)
    ELSE focusTarget(L, index, scrollToResult)

wrapNextIndexSkipsFirst(L) == IF Len(L.searchResults) > 1 THEN 1 ELSE 0

\* The index focusNext wraps to.
wrapNextIndex(L) == 0

focusNext(L, shouldWrap) ==
    IF L.focusedIndex < Len(L.searchResults) - 1
    THEN focus(L, L.focusedIndex + 1, TRUE)
    ELSE IF shouldWrap THEN focus(L, wrapNextIndex(L), TRUE) ELSE L

ScrollToEvent(y) ==
    [type |-> "scrollTo", target |-> Undefined, index |-> y, url |-> "", active |-> FALSE]

\* window.scrollTo(window.scrollX, 0)
scrollToTop(L) ==
    [L EXCEPT !.scrollY = 0, !.events = Append(@, ScrollToEvent(0))]

focusPreviousFromFirst(L, shouldWrap) ==
    IF L.focusedIndex >= 0
    THEN focus(L, L.focusedIndex - 1, TRUE)
    ELSE IF shouldWrap
         THEN focus(L, Len(L.searchResults) - 1, TRUE)
         ELSE scrollToTop(L)

focusPrevious(L, shouldWrap) ==
    IF L.focusedIndex > 0
    THEN focus(L, L.focusedIndex - 1, TRUE)
    ELSE IF shouldWrap
         THEN focus(L, Len(L.searchResults) - 1, TRUE)
         ELSE scrollToTop(L)

\* ---------------------------------------------------- selection resolver
\* focusedElement.localName === 'a' && focusedElement.hasAttribute('href')
isLink(el) == el.kind \in {"anchor", "link"}

\* getElementToNavigate: [value, threw].
getElementToNavigate(L, linkOnly) ==
    IF L.activeElement = NoElement
    THEN IF Defined(L, L.focusedIndex)
         THEN [value |-> AnchorOf(L.searchResults[L.focusedIndex + 1]), threw |-> FALSE]
         ELSE [value |-> Undefined, threw |-> TRUE]
    ELSE IF ~linkOnly \/ isLink(L.activeElement)
         THEN [value |-> L.activeElement, threw |-> FALSE]
         ELSE [value |-> Undefined, threw |-> FALSE]

\* ------------------------------------------------ navigation orchestrator
SaveEvent(url, index) ==
    [type |-> "save", target |-> Undefined, index |-> index, url |-> url, active |-> FALSE]
ClickEvent(el) ==
    [type |-> "click", target |-> el, index |-> 0, url |-> "", active |-> FALSE]
TabsCreateEvent(el, active) ==
    [type |-> "tabsCreate", target |-> el, index |-> 0, url |-> "", active |-> active]

initialFocusScrolling(L) ==
    LET s1 == [L EXCEPT !.isFirstNavigation = TRUE]
        s2 == IF options.autoSelectFirst THEN focus(s1, 0, TRUE) ELSE s1
    IN  IF ~s2.threw /\ CurrentUrl = s2.local.lastQueryUrl
        THEN focus([s2 EXCEPT !.isFirstNavigation = FALSE],
                   s2.local.lastFocusedIndex, TRUE)
        ELSE s2

\* Lines 250-260: the initial-focus policy on a non-empty list.
initialFocus(L) ==
    LET s1 == [L EXCEPT !.isFirstNavigation = TRUE]
        s2 == IF options.autoSelectFirst THEN focus(s1, 0, FALSE) ELSE s1
    IN  IF ~s2.threw /\ CurrentUrl = s2.local.lastQueryUrl
        THEN focus([s2 EXCEPT !.isFirstNavigation = FALSE],
                   s2.local.lastFocusedIndex, TRUE)
        ELSE s2

\* resetResultsManager over the list the adapter returns now.
resetResultsManager(L, results) ==
    LET s0 == NewManager(L, results)
    IN  IF Len(s0.searchResults) = 0 THEN s0 ELSE initialFocus(s0)

\* The condition of lines 268 and 277.
firstNavigationPending(L) == ~options.autoSelectFirst /\ L.isFirstNavigation

\* Lines 269-270 and 278-279.
focusFirst(L) ==
    LET s1 == focus(L, 0, TRUE)
    IN  IF s1.threw THEN s1 ELSE [s1 EXCEPT !.isFirstNavigation = FALSE]

nextKey(L) ==
    IF firstNavigationPending(L)
    THEN focusFirst(L)
    ELSE focusNext(L, options.wrapNavigation)

previousKey(L) ==
    IF firstNavigationPending(L)
    THEN focusFirst(L)
    ELSE focusPrevious(L, options.wrapNavigation)

\* Lines 287-290: the persisted record is written and saved.
saveLastNavigation(L) ==
    [L EXCEPT !.local = [lastQueryUrl |-> CurrentUrl,
                         lastFocusedIndex |-> L.focusedIndex],
              !.events = Append(@, SaveEvent(CurrentUrl, L.focusedIndex))]

\* link.click()
click(L, link) ==
    IF link = Undefined THEN Throw(L)
    ELSE [L EXCEPT !.events = Append(@, ClickEvent(link))]

navigateKeyClicksFirst(L) ==
    LET r == getElementToNavigate(L, FALSE)
    IN  IF r.threw THEN Throw(L) ELSE saveLastNavigation(click(L, r.value))

navigateKey(L) ==
    LET r == getElementToNavigate(L, FALSE)
    IN  IF r.threw THEN Throw(L) ELSE click(saveLastNavigation(L), r.value)

\* Lines 294-317: link.href is read, then the message is sent.
navigateNewTab(L, active) ==
    LET r == getElementToNavigate(L, TRUE)
    IN  IF r.threw \/ r.value = Undefined
        THEN Throw(L)
        ELSE [L EXCEPT !.events = Append(@, TabsCreateEvent(r.value, active))]

\* Lines 234-240: the onChangedResults callback.
onChangedResults(L, appendedOnly, results) ==
    IF appendedOnly
    THEN reloadSearchResults(L, results)
    ELSE resetResultsManager(L, results)

\* ---------------------------------------------------------- the page
RECURSIVE SortedSeq(_)
SortedSeq(S) ==
    IF S = {} THEN <<>>
    ELSE LET m == CHOOSE x \in S : \A y \in S : x <= y
         IN  <<m>> \o SortedSeq(S \ {m})

\* The result lists a page can show: a run of elements, in document order.
ResultLists == {SortedSeq(a..b) : a \in 1..(MaxResults + 1), b \in 0..MaxResults}

LastElem(results) == IF Len(results) = 0 THEN 0 ELSE results[Len(results)]

\* The list with m new results after it.
Appended(results, m) ==
    results \o [j \in 1..m |-> LastElem(results) + j]

\* The page replaces its results: elements that are gone take their classes
\* and the native focus with them, and the page may get shorter.
ReplaceDom(L, results) ==
    LET y == IF L.scrollY > MaxScrollYOf(results)
             THEN MaxScrollYOf(results) ELSE L.scrollY
    IN  [L EXCEPT !.highlight = @ \cap Range(results),
                  !.noOutline = @ \cap Range(results),
                  !.activeElement =
                      IF @.kind = "anchor" /\ @.elem \notin Range(results)
                      THEN Body ELSE @,
                  !.scrollY = y]

\* Where the user leaves the page scrolled: at its top or at its bottom.
ScrollPositions(results) == {0, MaxScrollYOf(results)}

Op(name, index, flag) == [name |-> name, index |-> index, flag |-> flag]

\* The handler's result becomes the state.
Commit(r, op) ==
    /\ searchResults' = r.searchResults
    /\ focusedIndex' = r.focusedIndex
    /\ isFirstNavigation' = r.isFirstNavigation
    /\ local' = r.local
    /\ highlight' = r.highlight
    /\ noOutline' = r.noOutline
    /\ activeElement' = r.activeElement
    /\ scrollY' = r.scrollY
    /\ scrollLog' = r.scrollLog
    /\ events' = r.events
    /\ threw' = r.threw
    /\ lastOp' = op
    /\ UNCHANGED <<options, topMargin, bottomMargin>>

\* ------------------------------------------------------------ actions
NoOp == Op("none", 0, FALSE)

\* The state of a page on which the extension has not run (yet).
Unloaded ==
    /\ searchResults = <<>>
    /\ focusedIndex = -1
    /\ isFirstNavigation = FALSE
    /\ highlight = {}
    /\ noOutline = {}
    /\ activeElement = Body
    /\ scrollY = 0
    /\ scrollLog = <<>>
    /\ events = <<>>
    /\ threw = FALSE

\* The orchestrator is followed in a browser other than Firefox with the
\* hideOutline option off; LedgerSpec covers both browsers and both values.
Init ==
    /\ pc = "loading"
    /\ options \in [autoSelectFirst : BOOLEAN, wrapNavigation : BOOLEAN,
                    hideOutline : {FALSE}]
    /\ local = [lastQueryUrl |-> OtherUrl, lastFocusedIndex |-> -1]
    /\ topMargin \in TopMargins
    /\ bottomMargin = getBrowserBottomDeltaFor(FALSE)
    /\ lastOp = NoOp
    /\ Unloaded

\* init() without the return of lines 129-131: the handlers get registered.
InitNoEngineRegisters ==
    /\ pc = "loading"
    /\ pc' = "ready"
    /\ Commit(Cur, Op("initNoEngine", 0, FALSE))

\* init() on a page no adapter matches: lines 129-131.
InitNoEngine ==
    /\ pc = "loading"
    /\ pc' = "inert"
    /\ Commit(Cur, Op("initNoEngine", 0, FALSE))

\* A navigation key is pressed on a page where init() returned at line 130:
\* no binding was registered (line 230 was not reached), no handler runs.
KeyWithoutHandler ==
    /\ pc = "inert"
    /\ Commit(Cur, Op("keyWithoutHandler", 0, FALSE))
    /\ UNCHANGED pc

\* init() on a page of an adapter: the page shows `results`, scrolled to y
\* (the browser restores the scroll position; the user scrolls during the
\* delay), and initResultsNavigation runs.  An adapter without
\* onChangedResults gives the behaviours in which no notification arrives.
InitExtension ==
    /\ pc = "loading"
    /\ \E results \in ResultLists :
         \E y \in ScrollPositions(results) :
            Commit(resetResultsManager([Cur EXCEPT !.scrollY = y], results),
                   Op("init", Len(results), FALSE))
    /\ pc' = "ready"

\* The page is loaded again (a reload, or the way back from a followed link).
PageLoad ==
    /\ pc \in {"ready", "inert"}
    /\ pc' = "loading"
    /\ searchResults' = <<>>
    /\ focusedIndex' = -1
    /\ isFirstNavigation' = FALSE
    /\ highlight' = {}
    /\ noOutline' = {}
    /\ activeElement' = Body
    /\ scrollY' = 0
    /\ scrollLog' = <<>>
    /\ events' = <<>>
    /\ threw' = FALSE
    /\ lastOp' = Op("pageLoad", 0, FALSE)
    /\ UNCHANGED <<options, local, topMargin, bottomMargin>>

NextKey ==
    /\ pc = "ready"
    /\ Commit(nextKey(Cur), Op("nextKey", focusedIndex, firstNavigationPending(Cur)))
    /\ UNCHANGED pc

PreviousKey ==
    /\ pc = "ready"
    /\ Commit(previousKey(Cur),
              Op("previousKey", focusedIndex, firstNavigationPending(Cur)))
    /\ UNCHANGED pc

NavigateKey ==
    /\ pc = "ready"
    /\ Commit(navigateKey(Cur), Op("navigateKey", focusedIndex, FALSE))
    /\ UNCHANGED pc

NavigateNewTabKey ==
    /\ pc = "ready"
    /\ Commit(navigateNewTab(Cur, TRUE), Op("navigateNewTabKey", focusedIndex, TRUE))
    /\ UNCHANGED pc

NavigateNewTabBackgroundKey ==
    /\ pc = "ready"
    /\ Commit(navigateNewTab(Cur, FALSE),
              Op("navigateNewTabBackgroundKey", focusedIndex, FALSE))
    /\ UNCHANGED pc

\* The page appends m results and the adapter reports appendedOnly = true.
AppendedResults ==
    /\ pc = "ready"
    /\ \E m \in 1..(MaxResults - LastElem(searchResults)) :
         Commit(onChangedResults(Cur, TRUE, Appended(searchResults, m)),
                Op("appended", m, TRUE))
    /\ UNCHANGED pc

\* The page replaces its results and the adapter reports appendedOnly = false.
ChangedResults ==
    /\ pc = "ready"
    /\ \E results \in ResultLists :
         Commit(onChangedResults(ReplaceDom(Cur, results), FALSE, results),
                Op("changed", Len(results), FALSE))
    /\ UNCHANGED pc

\* The user scrolls the page.
UserScroll ==
    /\ pc \in {"ready", "ledger"}
    /\ \E y \in ScrollPositions(searchResults) \ {scrollY} :
         Commit([Cur EXCEPT !.scrollY = y], Op("userScroll", y, FALSE))
    /\ UNCHANGED pc

\* The user moves the native focus (a click, the Tab key), or it is lost.
UserFocus ==
    /\ pc = "ready"
    /\ \E el \in {NoElement, Body, OtherLink} \ {activeElement} :
         Commit([Cur EXCEPT !.activeElement = el], Op("userFocus", 0, FALSE))
    /\ UNCHANGED pc

Next ==
    \/ InitNoEngine
    \/ InitExtension
    \/ PageLoad
    \/ NextKey
    \/ PreviousKey
    \/ NavigateKey
    \/ NavigateNewTabKey
    \/ NavigateNewTabBackgroundKey
    \/ AppendedResults
    \/ ChangedResults
    \/ UserScroll
    \/ UserFocus
    \/ KeyWithoutHandler

Spec == Init /\ [][Next]_vars

\* ---------------------------------------------- the ledger on its own
\* A freshly built ledger over a list of n results: the constructor, then
\* reloadSearchResults().
LedgerInit ==
    /\ pc = "ledger"
    /\ options \in [autoSelectFirst : {FALSE}, wrapNavigation : {FALSE},
                    hideOutline : BOOLEAN]
    /\ local = [lastQueryUrl |-> OtherUrl, lastFocusedIndex |-> -1]
    /\ topMargin \in TopMargins
    /\ \E firefox \in BOOLEAN : bottomMargin = getBrowserBottomDeltaFor(firefox)
    /\ lastOp = NoOp
    /\ \E n \in 0..MaxResults :
         /\ searchResults = [j \in 1..n |-> j]
         /\ focusedIndex = ConstructorFocusedIndex
    /\ isFirstNavigation = FALSE
    /\ highlight = {}
    /\ noOutline = {}
    /\ activeElement = Body
    /\ scrollY = 0
    /\ scrollLog = <<>>
    /\ events = <<>>
    /\ threw = FALSE

LedgerFocus ==
    /\ pc = "ledger"
    /\ \E index \in -1..MaxResults, scrollToResult \in BOOLEAN :
         Commit(focus(Cur, index, scrollToResult), Op("focus", index, scrollToResult))
    /\ UNCHANGED pc

LedgerFocusNext ==
    /\ pc = "ledger"
    /\ \E wrap \in BOOLEAN :
         Commit(focusNext(Cur, wrap), Op("focusNext", focusedIndex, wrap))
    /\ UNCHANGED pc

LedgerFocusPrevious ==
    /\ pc = "ledger"
    /\ \E wrap \in BOOLEAN :
         Commit(focusPrevious(Cur, wrap), Op("focusPrevious", focusedIndex, wrap))
    /\ UNCHANGED pc

\* reload: the adapter returns the list again, with m results appended.
LedgerReload ==
    /\ pc = "ledger"
    /\ \E m \in 0..(MaxResults - LastElem(searchResults)) :
         Commit(reloadSearchResults(Cur, Appended(searchResults, m)),
                Op("reload", m, TRUE))
    /\ UNCHANGED pc

\* scrollToElement(searchEngine, container) on its own, for any result.
LedgerScrollTo ==
    /\ pc = "ledger"
    /\ \E i \in 0..(Len(searchResults) - 1) :
         Commit(scrollToElement(Cur, i), Op("scrollToElement", i, FALSE))
    /\ UNCHANGED pc

LedgerNext ==
    \/ LedgerScrollTo
    \/ LedgerFocus
    \/ LedgerFocusNext
    \/ LedgerFocusPrevious
    \/ LedgerReload
    \/ UserScroll

LedgerSpec == LedgerInit /\ [][LedgerNext]_vars

\* ------------------------------------------------------------- claims
\* The result records that carry the highlight class.
Highlighted == {i \in 0..(Len(searchResults) - 1) : searchResults[i + 1] \in highlight}

\* Result i is the focused result: the index points at it and it is highlighted.
FocusedAt(i) == focusedIndex = i /\ Defined(Cur, i) /\ i \in Highlighted

\* The last handler was focus(), and it stopped after scrolling the current result.
C4_StoppedAfterScroll == Len(scrollLog) = 1 /\ scrollLog[1].scrolled

\* C1: after any sequence of focus, focusNext, focusPrevious and reload on a
\* freshly built ledger, whatever the scroller did, at most one result record
\* carries the highlight class.
C1_AtMostOneHighlighted ==
    pc = "ledger" => Cardinality(Highlighted) <= 1

\* C1's case: focusNext moved the highlight off a highlighted result, the
\* scroller having been asked about both the old and the new result.
C1_Witness ==
    /\ pc = "ledger"
    /\ lastOp.name = "focusNext"
    /\ Len(scrollLog) = 2
    /\ scrollLog[2].scrolled
    /\ lastOp.index >= 0
    /\ focusedIndex = lastOp.index + 1
    /\ Highlighted = {focusedIndex}

\* C3 as stated: from a focused index i of a list of n >= 1 results, n times
\* focusNext(wrap = true) ends on index i, with the highlight on result i.
RECURSIVE C3_FocusNextTimes(_, _)
C3_FocusNextTimes(L, k) ==
    IF k = 0 THEN L ELSE C3_FocusNextTimes(focusNext(L, TRUE), k - 1)

C3_ReturnsToStart ==
    LET r == C3_FocusNextTimes(Cur, Len(searchResults))
    IN  /\ r.focusedIndex = focusedIndex
        /\ r.highlight = {searchResults[focusedIndex + 1]}

C3_StopsAtScroll(L) ==
    /\ hasFocusedResult(L)
    /\ Defined(L, L.focusedIndex)
    /\ Scrolled(scrollToElement(L, L.focusedIndex))

\* None of k successive focusNext(wrap = true) calls stops after a scroll.
RECURSIVE C3_NoStop(_, _)
C3_NoStop(L, k) ==
    k = 0 \/ (~C3_StopsAtScroll(L) /\ C3_NoStop(focusNext(L, TRUE), k - 1))

C4_FocusOutOfRangeReturned ==
    /\ pc = "ledger"
    /\ lastOp.name = "focus"
    /\ ~Defined(Cur, lastOp.index)
    /\ ~threw

\* C4 as stated: after focus(index) with index outside [0, n) returns,
\* focusedIndex is -1 and no result record is highlighted.
C4_Original ==
    (C4_FocusOutOfRangeReturned /\ lastOp.flag)
        => (focusedIndex = -1 /\ Highlighted = {})

\* C4 (amended): after focus(index, scrollToResult) with index outside [0, n)
\* returns without having stopped at a scroll of the current result (it never
\* stops there when scrollToResult is false or nothing is focused),
\* focusedIndex is -1 and no result record is highlighted.
C4_ClearedUnlessScrollStop ==
    (C4_FocusOutOfRangeReturned /\ ~C4_StoppedAfterScroll)
        => (focusedIndex = -1 /\ Highlighted = {})

\* C4's case: focus(index) out of range with a result focused and in view: the
\* scroller was asked, did not scroll, and the focus was cleared.
C4_Witness ==
    /\ C4_FocusOutOfRangeReturned
    /\ lastOp.flag
    /\ Len(scrollLog) = 1
    /\ ~scrollLog[1].scrolled
    /\ focusedIndex = -1

\* C5: focusPrevious(wrap = false) at focusedIndex == 0 leaves focusedIndex and
\* the highlight as they are and scrolls the page to y = 0, by window.scrollTo
\* and not through the scroller.
C5_PreviousAtFirstScrollsToTop ==
    [][(pc = "ledger" /\ focusedIndex = 0 /\ lastOp' = Op("focusPrevious", 0, FALSE))
         => /\ focusedIndex' = 0
            /\ highlight' = highlight
            /\ activeElement' = activeElement
            /\ scrollY' = 0
            /\ events' = <<ScrollToEvent(0)>>
            /\ scrollLog' = <<>>]_vars

\* C5's case: focusPrevious(wrap = false) ran with result 0 focused.
C5_Witness ==
    /\ pc = "ledger"
    /\ lastOp = Op("focusPrevious", 0, FALSE)
    /\ FocusedAt(0)
    /\ Len(searchResults) >= 2
    /\ events = <<ScrollToEvent(0)>>

\* C2 as stated: once the ledger is built, focusedIndex is -1 or an index of
\* the list; a highlighted record is results[focusedIndex]; and with no record
\* highlighted focusedIndex is -1.
C2_Original ==
    pc = "ready" =>
        /\ (focusedIndex = -1 \/ Defined(Cur, focusedIndex))
        /\ (Highlighted # {} => Highlighted = {focusedIndex})
        /\ (Highlighted = {} => focusedIndex = -1)

\* The ledger was just built (init, or a full change) over a non-empty list.
JustBuilt ==
    /\ pc = "ready"
    /\ lastOp.name \in {"init", "changed"}
    /\ Len(searchResults) >= 1

PersistedMatch == local.lastQueryUrl = CurrentUrl

\* C6: with auto-select-first on, a non-empty list and no persisted match,
\* a build leaves focusedIndex == 0 and result 0 highlighted, and neither the
\* scroller nor window.scrollTo was called.
C6_AutoSelectFirstWithoutScroll ==
    (JustBuilt /\ options.autoSelectFirst /\ ~PersistedMatch)
        => /\ focusedIndex = 0
           /\ 0 \in Highlighted
           /\ scrollLog = <<>>
           /\ events = <<>>
           /\ ~threw

\* C6's case: a rebuild on a page scrolled away from result 0.
C6_Witness ==
    /\ JustBuilt
    /\ lastOp.name = "changed"
    /\ options.autoSelectFirst
    /\ ~PersistedMatch
    /\ Len(searchResults) >= 2
    /\ scrollY > HeaderHeight + ResultHeight
    /\ FocusedAt(0)

\* C7 as stated: when the persisted lastQueryUrl is the current address and
\* lastFocusedIndex = k is an index of the list, initialization ends with
\* focusedIndex == k, result k highlighted and the scroller called for it.
C7_Original ==
    (JustBuilt /\ lastOp.name = "init" /\ PersistedMatch
         /\ Defined(Cur, local.lastFocusedIndex))
        => /\ focusedIndex = local.lastFocusedIndex
           /\ local.lastFocusedIndex \in Highlighted
           /\ \E j \in 1..Len(scrollLog) : scrollLog[j].index = local.lastFocusedIndex

\* C8 as stated: with auto-select-first off, at least 2 results and no
\* persisted match, isFirstNavigation is true after a build; the first next or
\* previous intent focuses result 0 and clears the flag; the next intent after
\* it moves the focus to result 1.
C8_Original ==
    /\ (JustBuilt /\ ~options.autoSelectFirst /\ ~PersistedMatch)
           => isFirstNavigation
    /\ (/\ pc = "ready"
        /\ lastOp.name \in {"nextKey", "previousKey"}
        /\ lastOp.flag
        /\ ~PersistedMatch
        /\ Len(searchResults) >= 2)
           => /\ focusedIndex = 0
              /\ 0 \in Highlighted
              /\ ~isFirstNavigation
              /\ nextKey(Cur).focusedIndex = 1
              /\ searchResults[2] \in nextKey(Cur).highlight

\* What the navigate intent resolves in the current state.
C9_Target ==
    IF activeElement = NoElement
    THEN AnchorOf(searchResults[focusedIndex + 1])
    ELSE activeElement

\* C9: a navigate intent taken at focusedIndex == k never clicks before it has
\* written and saved {lastQueryUrl: current address, lastFocusedIndex: k}; and
\* whenever it resolves an element (the native focus, or the anchor of the
\* focused result) it saves that record and then clicks that element.
C9_SaveBeforeClick ==
    (pc = "ready" /\ lastOp.name = "navigateKey") =>
        /\ \A j \in 1..Len(events) :
             events[j].type = "click" =>
                /\ j = 2
                /\ events[1] = SaveEvent(CurrentUrl, lastOp.index)
                /\ local = [lastQueryUrl |-> CurrentUrl,
                            lastFocusedIndex |-> lastOp.index]
        /\ focusedIndex = lastOp.index
        /\ (activeElement # NoElement \/ Defined(Cur, focusedIndex))
              => /\ ~threw
                 /\ events = <<SaveEvent(CurrentUrl, focusedIndex),
                               ClickEvent(C9_Target)>>
                 /\ local = [lastQueryUrl |-> CurrentUrl,
                             lastFocusedIndex |-> focusedIndex]

\* C9's case: navigate with result 2 focused.
C9_Witness ==
    /\ pc = "ready"
    /\ lastOp = Op("navigateKey", 2, FALSE)
    /\ FocusedAt(2)
    /\ events = <<SaveEvent(CurrentUrl, 2), ClickEvent(AnchorOf(searchResults[3]))>>
    /\ local = [lastQueryUrl |-> CurrentUrl, lastFocusedIndex |-> 2]

\* Index idx becomes the focused index within k focusNext calls from L.
RECURSIVE C10_Reaches(_, _, _)
C10_Reaches(L, idx, k) ==
    \/ L.focusedIndex = idx
    \/ (k > 0 /\ C10_Reaches(focusNext(L, FALSE), idx, k - 1))

\* No index needs more than three calls: two scrolls and the move.
C10_MaxSteps == 3 * (MaxResults + 1)

\* C10 as stated: an append-only notification on a list whose result k is
\* focused leaves focusedIndex == k and the highlight on result k, and every
\* new index is reached by repeated focusNext.
C10_Original ==
    [][(pc = "ready" /\ lastOp'.name = "appended" /\ FocusedAt(focusedIndex))
         => /\ focusedIndex' = focusedIndex
            /\ highlight' = highlight
            /\ \A idx \in Len(searchResults)..(Len(searchResults') - 1) :
                  C10_Reaches(Cur', idx, C10_MaxSteps)]_vars

\* The anchor of the focused result, when a result is focused.
HighlightedAnchor == AnchorOf(searchResults[focusedIndex + 1])

\* C11: the resolver returns the natively focused element when there is one
\* and either links are not preferred or it is a link with an address; in every
\* other case where a result is focused it returns the anchor of the focused
\* result; it returns undefined only when no result is focused.
C11_Original ==
    pc = "ready" =>
      \A linkOnly \in BOOLEAN :
        LET r == getElementToNavigate(Cur, linkOnly)
            native == activeElement # NoElement
                        /\ (~linkOnly \/ isLink(activeElement))
        IN  /\ native => (~r.threw /\ r.value = activeElement)
            /\ (~native /\ FocusedAt(focusedIndex))
                  => (~r.threw /\ r.value = HighlightedAnchor)
            /\ (~r.threw /\ r.value = Undefined) => ~FocusedAt(focusedIndex)

\* The last handler was one of the two 'navigate in new tab' handlers.
NewTabIntents == {"navigateNewTabKey", "navigateNewTabBackgroundKey"}

\* The new-tab handlers leave the persisted record, the index, the highlight
\* and the native focus as they were.
C12_Frame ==
    /\ local' = local
    /\ focusedIndex' = focusedIndex
    /\ highlight' = highlight
    /\ activeElement' = activeElement

\* C12: the 'navigate in new tab' and 'navigate in new background tab'
\* handlers leave the persisted record, focusedIndex, the highlight and the
\* native focus unchanged, and send exactly one tab-creation request for the
\* resolved target (the natively focused link, otherwise the focused result's
\* anchor) with active = true, respectively false.
C12_Original ==
    [][lastOp'.name \in NewTabIntents =>
         /\ C12_Frame
         /\ (activeElement # NoElement /\ isLink(activeElement))
               => events' = <<TabsCreateEvent(activeElement, lastOp'.flag)>>
         /\ (~(activeElement # NoElement /\ isLink(activeElement))
               /\ FocusedAt(focusedIndex))
               => events' = <<TabsCreateEvent(HighlightedAnchor, lastOp'.flag)>>]_vars

\* C13: a full-change notification rebuilds the ledger with no result focused
\* and applies the initial-focus policy: with auto-select-first off and no
\* persisted match the rebuilt ledger has focusedIndex = -1 and the first
\* navigation is pending; with auto-select-first on, a non-empty list and no
\* persisted match it has focusedIndex = 0.
C13_Original ==
    (pc = "ready" /\ lastOp.name = "changed" /\ ~PersistedMatch) =>
        /\ ~options.autoSelectFirst => (focusedIndex = -1 /\ isFirstNavigation)
        /\ (options.autoSelectFirst /\ Len(searchResults) >= 1) => focusedIndex = 0

\* The ledger operations other than reload.
LedgerMoves == {"focus", "focusNext", "focusPrevious"}

\* C14: on an empty result list focus(index), focusNext(wrap) and
\* focusPrevious(wrap), for every index and both values of wrap, complete
\* without an error and leave focusedIndex and the highlight unchanged.
C14_Original ==
    [][(Len(searchResults) = 0 /\ lastOp'.name \in LedgerMoves) =>
          /\ ~threw'
          /\ focusedIndex' = focusedIndex
          /\ highlight' = highlight]_vars

\* The handlers that act on the resolved target.
NavigateIntents == {"navigateKey"} \cup NewTabIntents

\* C15: when no result is focused (focusedIndex = -1, or the list is empty),
\* the navigate, new-tab and new-background-tab handlers never raise an error,
\* whatever the native focus is (none, a non-link element, a link).
C15_Original ==
    (pc = "ready" /\ lastOp.name \in NavigateIntents
        /\ (focusedIndex = -1 \/ Len(searchResults) = 0))
      => ~threw

\* The page and the persisted record are as the page load left them: there is
\* no ledger, nothing is highlighted, nothing was scrolled, saved or sent.
C16_Untouched ==
    /\ searchResults' = <<>> /\ focusedIndex' = -1
    /\ highlight' = {} /\ noOutline' = {}
    /\ activeElement' = activeElement
    /\ scrollY' = scrollY
    /\ local' = local
    /\ scrollLog' = <<>> /\ events' = <<>> /\ ~threw'

\* C16: when no adapter matches the page, init() ends with no handler and no
\* subscription registered, no ledger built and the page untouched, and no
\* later event on that page changes the focus, the highlight, the scroll
\* position or the persisted record.
C16_InertWithoutEngine ==
    [][/\ lastOp'.name = "initNoEngine" => (pc' = "inert" /\ C16_Untouched)
       /\ pc = "inert" => (lastOp'.name = "pageLoad" \/ (pc' = "inert" /\ C16_Untouched))
      ]_vars

C16_Witness == pc = "inert" /\ lastOp.name = "keyWithoutHandler"

\* focus(index, true) was called with a result focused, and bringing that
\* result's container into view scrolled the page.
C17_CurrentScrolled ==
    /\ lastOp'.name = "focus" /\ lastOp'.flag
    /\ focusedIndex >= 0
    /\ scrollLog' # <<>>
    /\ scrollLog'[1].index = focusedIndex /\ scrollLog'[1].scrolled

\* C17: in focus(index, true) with focusedIndex >= 0, when scrolling the
\* current result's container into view actually scrolls, the call stops
\* there: focusedIndex, the highlight and the native focus are as before,
\* whatever index was asked for; the highlight moves only when that scroll
\* did not happen.
C17_StopsAfterActualScroll ==
    [][C17_CurrentScrolled =>
          /\ Len(scrollLog') = 1
          /\ scrollY' # scrollY
          /\ focusedIndex' = focusedIndex
          /\ highlight' = highlight
          /\ noOutline' = noOutline
          /\ activeElement' = activeElement
          /\ ~threw']_vars

\* focus(index, true) for another index stopped at the scroll and left the
\* highlight on the current result.
C17_Witness ==
    /\ lastOp.name = "focus" /\ lastOp.flag
    /\ lastOp.index \in 0..(Len(searchResults) - 1)
    /\ lastOp.index # focusedIndex
    /\ Len(scrollLog) = 1 /\ scrollLog[1].scrolled
    /\ Highlighted = {focusedIndex}

\* The top edge of the container scrollToElement was called on, in the
\* viewport, before the call.
C18_Top == HeaderHeight + lastOp'.index * ResultHeight - scrollY
C18_Bottom == C18_Top + ResultHeight

\* C18: one call of scrollToElement applies at most one adjustment: the
\* align-to-top one when the element's top edge is above topMargin, otherwise
\* the align-to-bottom one when its bottom edge plus bottomMargin is below the
\* viewport height; it applies none and returns false when the element lies
\* within [topMargin, viewportHeight - bottomMargin]; it returns true exactly
\* when the vertical scroll position changed; and it never changes
\* focusedIndex, the highlight classes, the native focus or the result list.
C18_OneAdjustment ==
    [][lastOp'.name = "scrollToElement" =>
          /\ Len(scrollLog') = 1
          /\ scrollLog'[1].branch = "top" <=> C18_Top < topMargin
          /\ scrollLog'[1].branch = "bottom"
                <=> (C18_Top >= topMargin
                       /\ C18_Bottom + bottomMargin > ViewportHeight)
          /\ (C18_Top >= topMargin /\ C18_Bottom <= ViewportHeight - bottomMargin)
                => (scrollLog'[1].branch = "none" /\ ~scrollLog'[1].scrolled
                      /\ scrollY' = scrollY)
          /\ scrollLog'[1].scrolled <=> scrollY' # scrollY
          /\ focusedIndex' = focusedIndex
          /\ highlight' = highlight
          /\ noOutline' = noOutline
          /\ activeElement' = activeElement
          /\ searchResults' = searchResults
          /\ events' = <<>> /\ ~threw']_vars

\* scrollToElement aligned an element to the top and the page scrolled.
C18_Witness ==
    /\ lastOp.name = "scrollToElement"
    /\ scrollLog[1].branch = "top"
    /\ scrollLog[1].scrolled

\* C19: whatever the interleaving of key presses with append-only and
\* full-change notifications, a full change being free to keep elements of the
\* previous list on the page, at most one element of the page carries the
\* highlight class.
C19_Original == pc = "ready" => Cardinality(highlight) <= 1

\* The 'next' and 'previous' key handlers.
MoveIntents == {"nextKey", "previousKey"}

\* The native focus is on the focused result's anchor, and the navigate handler
\* would persist the focused index and then activate exactly that anchor.
C20_Agrees ==
    /\ activeElement = HighlightedAnchor
    /\ ~navigateKey(Cur).threw
    /\ navigateKey(Cur).local =
          [lastQueryUrl |-> CurrentUrl, lastFocusedIndex |-> focusedIndex]
    /\ navigateKey(Cur).events =
          <<SaveEvent(CurrentUrl, focusedIndex), ClickEvent(HighlightedAnchor)>>

\* C20, as stated: after a 'next' or 'previous' key press (the last ledger
\* operation, the user not having moved the native focus since), if result i
\* is the highlighted result, the native focus is on results[i].anchor and a
\* navigate key press activates that anchor and persists lastFocusedIndex = i.
C20_Original ==
    (pc = "ready" /\ lastOp.name \in MoveIntents /\ ~threw
        /\ Highlighted = {focusedIndex})
      => C20_Agrees

\* The last focus() call reached lines 85-100: it scrolled to the current
\* result without effect and then to the new one, or no result was focused
\* and it scrolled to the new one only.
C20_HighlightApplied ==
    \/ Len(scrollLog) = 2
    \/ Len(scrollLog) = 1 /\ lastOp.index = -1

\* C20, amended: after a 'next' or 'previous' key press that highlighted
\* result i, the user not having moved the native focus since, result i is
\* highlighted, the native focus is on results[i].anchor, and a navigate key
\* press activates that anchor and persists lastFocusedIndex = i.
C20_FocusFollowsHighlight ==
    (pc = "ready" /\ lastOp.name \in MoveIntents /\ ~threw /\ C20_HighlightApplied)
      => (focusedIndex \in Highlighted /\ C20_Agrees)

\* A key press moved the highlight to a later result while the native focus
\* was elsewhere.
C20_Witness ==
    /\ pc = "ready" /\ lastOp.name \in MoveIntents /\ C20_HighlightApplied
    /\ lastOp.index >= 0 /\ focusedIndex >= 1
    /\ focusedIndex # lastOp.index

=============================================================================
